---- MODULE Spec2Model ----
(***************************************************************************)
(* The local order ledger of goodtrader.py (class OrderBook) and the       *)
(* calls the AutoTrader makes on it.  The ledger is the record held in     *)
(* AutoTrader.order_book; every method is an operator from the ledger      *)
(* before the call to the returned value and the ledger after it.          *)
(*                                                                         *)
(* An order is the triple <<price, vol, order_id>> (the list               *)
(* [price, vol, order_id] of the source; index 1, 2, 3 here is index       *)
(* 0, 1, 2 there).                                                         *)
(*                                                                         *)
(* Every behaviour starts from the constructed AutoTrader.  The            *)
(* environment first makes the calls of one scripted prefix (none, or a    *)
(* sequence that leads to a ledger near one of its limits) and then        *)
(* MaxSteps calls of its own choice.  The exchange fills an order for at   *)
(* most the volume it was accepted with, also after the order was          *)
(* cancelled locally.                                                      *)
(***************************************************************************)
EXTENDS Integers, Sequences, FiniteSets, TLC

LOT_SIZE == 40
POSITION_LIMIT == 1000
VOLUME_LIMIT == 200
TICK_SIZE_IN_CENTS == 100
ORDER_LIMIT == 10

\* Number of calls the environment chooses freely once its scripted prefix is over.
MaxSteps == 3

\* ready_trader_one.Side is an IntEnum in which BID is an alias of BUY and
\* ASK an alias of SELL.
BID == "BID"
ASK == "ASK"
BUY == BID
SELL == ASK

VARIABLES
    order_book,   \* AutoTrader.order_book : the OrderBook instance
    order_ids,    \* AutoTrader.order_ids  : next value of itertools.count(1)
    venue,        \* exchange side: order id -> [side, left] of accepted orders not yet fully filled
    fills,        \* signed sum (bid fills minus ask fills) of every fill notified so far
    last,         \* the last call: its arguments, its result and the ledger before it
    script,       \* calls the environment still makes before it chooses freely
    steps,        \* calls the environment may still choose freely
    last_time_called,  \* AutoTrader.last_time_called : times of the granted submissions
    clock,             \* AutoTrader.event_loop.time(), in seconds
    etf_market_price,  \* AutoTrader.etf_market_price[-1]
    out,          \* what the last send_buy_order or send_sell_order did, step by step
    wire          \* per second of the clock: grants of rolling_period_limit and messages sent

\* the fields of the AutoTrader around the ledger, and what it sent
trader == <<last_time_called, clock, etf_market_price, out, wire>>

vars == <<order_book, order_ids, venue, fills, last, script, steps,
          last_time_called, clock, etf_market_price, out, wire>>

----------------------------------------------------------------------------
(* Helpers for Python lists, dicts and round().                            *)

Abs(x) == IF x < 0 THEN -x ELSE x

Min(a, b) == IF a < b THEN a ELSE b

\* list.insert(i, e) with 1-based i
InsertAt(s, i, e) == SubSeq(s, 1, i - 1) \o <<e>> \o SubSeq(s, i, Len(s))

\* list.pop(i) with 1-based i
RemoveAt(s, i) == SubSeq(s, 1, i - 1) \o SubSeq(s, i + 1, Len(s))

\* the first index whose order carries order_id, 0 when the loop finds none
IndexOfId(s, order_id) ==
    IF \E i \in 1..Len(s) : s[i][3] = order_id
    THEN CHOOSE i \in 1..Len(s) :
            /\ s[i][3] = order_id
            /\ \A j \in 1..(i - 1) : s[j][3] # order_id
    ELSE 0

\* FirstAtLeast passing over the orders at the same price
FirstAtLeast_strict(s, price) ==
    IF \E i \in 1..Len(s) : s[i][1] > price
    THEN CHOOSE i \in 1..Len(s) :
            /\ s[i][1] > price
            /\ \A j \in 1..(i - 1) : s[j][1] <= price
    ELSE 0

\* the first index whose price is >= price, 0 when the loop finds none
FirstAtLeast(s, price) ==
    IF \E i \in 1..Len(s) : s[i][1] >= price
    THEN CHOOSE i \in 1..Len(s) :
            /\ s[i][1] >= price
            /\ \A j \in 1..(i - 1) : s[j][1] < price
    ELSE 0

\* round(n / d) of Python 3 for integers n, d with d # 0: nearest integer,
\* a tie going to the even neighbour.
Round(n, d) ==
    LET nn == IF d < 0 THEN -n ELSE n
        dd == IF d < 0 THEN -d ELSE d
        q  == nn \div dd
        r  == nn - q * dd
    IN  IF 2 * r < dd THEN q
        ELSE IF 2 * r > dd THEN q + 1
        ELSE IF q % 2 = 0 THEN q ELSE q + 1

\* a dict as a function; d[k] = v
DictSet(d, k, v) == (k :> v) @@ d

EmptyDict == [k \in {} |-> 0]

----------------------------------------------------------------------------
(* class OrderBook                                                         *)

OrderBook ==
    [ position              |-> 0,
      position_after_orders |-> 0,
      volume                |-> 0,
      num_orders            |-> 0,
      asks                  |-> <<>>,
      bids                  |-> <<>>,
      vol_asks              |-> 0,
      vol_bids              |-> 0,
      average_price         |-> 0,
      total_buy_volume      |-> 0,
      total_sell_volume     |-> 0,
      future_position       |-> 0,
      last_buy              |-> 0,
      last_sell             |-> 0,
      cancelled_orders      |-> EmptyDict ]

\* The value a call hands back: ok/val are the pair [Boolean, int] of add_bid
\* and add_ask (ok = FALSE, val = 0 stands for None elsewhere), raised names
\* the exception that escaped the call ("" when none did) and log lists the
\* messages written with logger.error.
Ret(ok, val, raised, log) == [ok |-> ok, val |-> val, raised |-> raised, log |-> log]

NoneRet == Ret(FALSE, 0, "", <<>>)

\* add_bid_reason looking at the volume before the number of orders
add_bid_reason_volume_first(self) ==
    IF self.volume = VOLUME_LIMIT THEN 1
    ELSE IF self.num_orders < ORDER_LIMIT THEN
        IF self.position = POSITION_LIMIT THEN 2
        ELSE IF self.position + self.vol_bids = POSITION_LIMIT THEN 3
        ELSE -1
    ELSE 0

\* add_bid_reason comparing the volume with > where the source has ==
add_bid_reason_volume_above(self) ==
    IF self.num_orders < ORDER_LIMIT THEN
        IF self.volume > VOLUME_LIMIT THEN 1
        ELSE IF self.position = POSITION_LIMIT THEN 2
        ELSE IF self.position + self.vol_bids = POSITION_LIMIT THEN 3
        ELSE -1
    ELSE 0

\* The rejection code of add_bid, -1 when the order is admitted.
add_bid_reason(self) ==
    IF self.num_orders < ORDER_LIMIT THEN
        IF self.volume = VOLUME_LIMIT THEN 1
        ELSE IF self.position = POSITION_LIMIT THEN 2
        ELSE IF self.position + self.vol_bids = POSITION_LIMIT THEN 3
        ELSE -1
    ELSE 0

\* The two clamps of add_bid: the volume that enters the ledger.
add_bid_volume(self, vol) ==
    LET vol1 == IF vol + self.volume > VOLUME_LIMIT
                THEN VOLUME_LIMIT - self.volume ELSE vol
    IN  IF self.position + self.vol_bids + vol1 > POSITION_LIMIT
        THEN POSITION_LIMIT - self.position - self.vol_bids ELSE vol1

\* add_bid_insert without self.volume += vol
add_bid_insert_keeps_volume(self, price, vol, order_id) ==
    LET i   == FirstAtLeast(self.bids, price)
        new == <<price, vol, order_id>>
    IN  [self EXCEPT
            !.bids = IF i # 0 THEN InsertAt(@, i, new) ELSE Append(@, new),
            !.position_after_orders = @ + vol,
            !.num_orders = @ + 1,
            !.vol_bids = @ + vol]

\* The insertion of add_bid and its counter updates.
add_bid_insert(self, price, vol, order_id) ==
    LET i   == FirstAtLeast(self.bids, price)
        new == <<price, vol, order_id>>
    IN  [self EXCEPT
            !.bids = IF i # 0 THEN InsertAt(@, i, new) ELSE Append(@, new),
            !.position_after_orders = @ + vol,
            !.volume = @ + vol,
            !.num_orders = @ + 1,
            !.vol_bids = @ + vol]

\* add_bid counting the order before it checks the limits
add_bid_counts_first(self, price, vol, order_id) ==
    LET code == add_bid_reason(self)
        v    == add_bid_volume(self, vol)
    IN  IF code # -1
        THEN [ret |-> Ret(FALSE, code, "", <<>>),
              self |-> [self EXCEPT !.num_orders = @ + 1]]
        ELSE [ret |-> Ret(TRUE, v, "", <<>>),
              self |-> add_bid_insert(self, price, v, order_id)]

add_bid(self, price, vol, order_id) ==
    LET code == add_bid_reason(self)
        v    == add_bid_volume(self, vol)
    IN  IF code # -1
        THEN [ret |-> Ret(FALSE, code, "", <<>>), self |-> self]
        ELSE [ret |-> Ret(TRUE, v, "", <<>>),
              self |-> add_bid_insert(self, price, v, order_id)]

\* The rejection code of add_ask, -1 when the order is admitted.
add_ask_reason(self) ==
    IF self.num_orders < ORDER_LIMIT THEN
        IF self.volume = VOLUME_LIMIT THEN 1
        ELSE IF self.position = -POSITION_LIMIT THEN 2
        ELSE IF -self.position + self.vol_asks = POSITION_LIMIT THEN 3
        ELSE -1
    ELSE 0

\* The two clamps of add_ask: the volume that enters the ledger.
add_ask_volume(self, vol) ==
    LET vol1 == IF vol + self.volume > VOLUME_LIMIT
                THEN VOLUME_LIMIT - self.volume ELSE vol
    IN  IF -self.position + self.vol_asks + vol1 > POSITION_LIMIT
        THEN POSITION_LIMIT - Abs(self.position) - self.vol_asks ELSE vol1

\* The insertion of add_ask and its counter updates.
add_ask_insert(self, price, vol, order_id) ==
    LET i   == FirstAtLeast(self.asks, price)
        new == <<price, vol, order_id>>
    IN  [self EXCEPT
            !.asks = IF i # 0 THEN InsertAt(@, i, new) ELSE Append(@, new),
            !.position_after_orders = @ - vol,
            !.volume = @ + vol,
            !.num_orders = @ + 1,
            !.vol_asks = @ + vol]

add_ask(self, price, vol, order_id) ==
    LET code == add_ask_reason(self)
        v    == add_ask_volume(self, vol)
    IN  IF code # -1
        THEN [ret |-> Ret(FALSE, code, "", <<>>), self |-> self]
        ELSE [ret |-> Ret(TRUE, v, "", <<>>),
              self |-> add_ask_insert(self, price, v, order_id)]

\* calc_average_price_buy opening the new position with the whole fill.
calc_average_price_buy_whole_fill(self, price, vol) ==
    IF self.position > 0 THEN
        LET total_price == self.total_buy_volume * self.average_price + price * vol
            tbv == self.total_buy_volume + vol
        IN  IF tbv = 0
            THEN [raised |-> TRUE, self |-> [self EXCEPT !.total_buy_volume = tbv]]
            ELSE [raised |-> FALSE,
                  self |-> [self EXCEPT !.total_buy_volume = tbv,
                                        !.average_price = Round(total_price, tbv)]]
    ELSE
        LET new_position == self.position + vol
        IN  IF new_position > 0 THEN
                [raised |-> FALSE,
                 self |-> [self EXCEPT !.total_sell_volume = 0,
                                       !.total_buy_volume = vol,
                                       !.average_price = price]]
            ELSE IF new_position < 0 THEN
                [raised |-> FALSE,
                 self |-> [self EXCEPT !.total_sell_volume = @ - vol]]
            ELSE
                [raised |-> FALSE,
                 self |-> [self EXCEPT !.total_buy_volume = 0,
                                       !.total_sell_volume = 0,
                                       !.average_price = 0]]

\* The Side.BUY branch of calc_average_price: raised is TRUE when
\* round(total_price / 0) raises ZeroDivisionError; the accumulator was
\* already updated by then.
calc_average_price_buy(self, price, vol) ==
    IF self.position > 0 THEN
        LET total_price == self.total_buy_volume * self.average_price + price * vol
            tbv == self.total_buy_volume + vol
        IN  IF tbv = 0
            THEN [raised |-> TRUE, self |-> [self EXCEPT !.total_buy_volume = tbv]]
            ELSE [raised |-> FALSE,
                  self |-> [self EXCEPT !.total_buy_volume = tbv,
                                        !.average_price = Round(total_price, tbv)]]
    ELSE
        LET new_position == self.position + vol
        IN  IF new_position > 0 THEN
                [raised |-> FALSE,
                 self |-> [self EXCEPT !.total_sell_volume = 0,
                                       !.total_buy_volume = new_position,
                                       !.average_price = price]]
            ELSE IF new_position < 0 THEN
                [raised |-> FALSE,
                 self |-> [self EXCEPT !.total_sell_volume = @ - vol]]
            ELSE
                [raised |-> FALSE,
                 self |-> [self EXCEPT !.total_buy_volume = 0,
                                       !.total_sell_volume = 0,
                                       !.average_price = 0]]

\* The other branch of calc_average_price.
calc_average_price_sell(self, price, vol) ==
    IF self.position < 0 THEN
        LET total_price == self.total_sell_volume * self.average_price + price * vol
            tsv == self.total_sell_volume + vol
        IN  IF tsv = 0
            THEN [raised |-> TRUE, self |-> [self EXCEPT !.total_sell_volume = tsv]]
            ELSE [raised |-> FALSE,
                  self |-> [self EXCEPT !.total_sell_volume = tsv,
                                        !.average_price = Round(total_price, tsv)]]
    ELSE
        LET new_position == self.position - vol
        IN  IF new_position < 0 THEN
                [raised |-> FALSE,
                 self |-> [self EXCEPT !.total_buy_volume = 0,
                                       !.total_sell_volume = Abs(new_position),
                                       !.average_price = price]]
            ELSE IF new_position > 0 THEN
                [raised |-> FALSE,
                 self |-> [self EXCEPT !.total_buy_volume = @ - vol]]
            ELSE
                [raised |-> FALSE,
                 self |-> [self EXCEPT !.total_buy_volume = 0,
                                       !.total_sell_volume = 0,
                                       !.average_price = 0]]

calc_average_price(self, price, vol, side) ==
    IF side = BUY THEN calc_average_price_buy(self, price, vol)
    ELSE calc_average_price_sell(self, price, vol)

\* The bids loop of amend_order, for the bid at index i.
amend_bid(self, vol, i) ==
    LET bid == self.bids[i]
        avg == calc_average_price(self, bid[1], vol, BUY)
    IN  IF avg.raised
        THEN [ret |-> Ret(FALSE, 0, "ZeroDivisionError", <<>>), self |-> avg.self]
        ELSE [ret  |-> NoneRet,
              self |-> [avg.self EXCEPT
                  !.volume = @ - vol,
                  !.position = @ + vol,
                  !.future_position = @ - vol,
                  !.last_buy = bid[1],
                  !.vol_bids = @ - vol,
                  !.bids = IF bid[2] - vol = 0 THEN RemoveAt(@, i)
                           ELSE [@ EXCEPT ![i] = <<bid[1], bid[2] - vol, bid[3]>>],
                  !.num_orders = IF bid[2] - vol = 0 THEN @ - 1 ELSE @]]

\* The asks loop of amend_order, for the ask at index j.
amend_ask(self, vol, j) ==
    LET ask == self.asks[j]
        avg == calc_average_price(self, ask[1], vol, SELL)
    IN  IF avg.raised
        THEN [ret |-> Ret(FALSE, 0, "ZeroDivisionError", <<>>), self |-> avg.self]
        ELSE [ret  |-> NoneRet,
              self |-> [avg.self EXCEPT
                  !.volume = @ - vol,
                  !.position = @ - vol,
                  !.future_position = @ + vol,
                  !.last_sell = ask[1],
                  !.vol_asks = @ - vol,
                  !.asks = IF ask[2] - vol = 0 THEN RemoveAt(@, j)
                           ELSE [@ EXCEPT ![j] = <<ask[1], ask[2] - vol, ask[3]>>],
                  !.num_orders = IF ask[2] - vol = 0 THEN @ - 1 ELSE @]]

FixedLog == <<"Order not found", "But then it got fixed">>

\* amend_cancelled moving position alone.
amend_cancelled_keeps_future(self, vol, order_id) ==
    IF self.cancelled_orders[order_id] = ASK
    THEN [ret  |-> Ret(FALSE, 0, "", FixedLog),
          self |-> [self EXCEPT !.position = @ - vol]]
    ELSE [ret  |-> Ret(FALSE, 0, "", FixedLog),
          self |-> [self EXCEPT !.position = @ + vol]]

\* amend_cancelled treating the cancelled order as if it still rested.
amend_cancelled_counts_volume(self, vol, order_id) ==
    IF self.cancelled_orders[order_id] = ASK
    THEN [ret  |-> Ret(FALSE, 0, "", FixedLog),
          self |-> [self EXCEPT !.position = @ - vol,
                                !.future_position = @ + vol,
                                !.volume = @ - vol,
                                !.vol_asks = @ - vol]]
    ELSE [ret  |-> Ret(FALSE, 0, "", FixedLog),
          self |-> [self EXCEPT !.position = @ + vol,
                                !.future_position = @ - vol,
                                !.volume = @ - vol,
                                !.vol_bids = @ - vol]]

\* The registry path of amend_order, for an order_id in cancelled_orders.
amend_cancelled(self, vol, order_id) ==
    IF self.cancelled_orders[order_id] = ASK
    THEN [ret  |-> Ret(FALSE, 0, "", FixedLog),
          self |-> [self EXCEPT !.position = @ - vol,
                                !.future_position = @ + vol]]
    ELSE [ret  |-> Ret(FALSE, 0, "", FixedLog),
          self |-> [self EXCEPT !.position = @ + vol,
                                !.future_position = @ - vol]]

\* amend_order returning from an unmatched id without the error record.
amend_order_drops_unknown(self, vol, order_id) ==
    LET i == IndexOfId(self.bids, order_id)
        j == IndexOfId(self.asks, order_id)
    IN  IF i # 0 THEN amend_bid(self, vol, i)
        ELSE IF j # 0 THEN amend_ask(self, vol, j)
        ELSE IF order_id \in DOMAIN self.cancelled_orders
        THEN amend_cancelled(self, vol, order_id)
        ELSE [ret |-> NoneRet, self |-> self]

\* ret.log holds the logger.error records of the call: line 601 is reached
\* whenever no resting order matched, line 604 only on the registry path.
amend_order(self, vol, order_id) ==
    LET i == IndexOfId(self.bids, order_id)
        j == IndexOfId(self.asks, order_id)
    IN  IF i # 0 THEN amend_bid(self, vol, i)
        ELSE IF j # 0 THEN amend_ask(self, vol, j)
        ELSE IF order_id \in DOMAIN self.cancelled_orders
        THEN amend_cancelled(self, vol, order_id)
        ELSE [ret |-> Ret(FALSE, 0, "", <<"Order not found">>), self |-> self]

\* remove_bid without the entry in cancelled_orders.
remove_bid_forgets_side(self, i, order_id) ==
    LET bid == self.bids[i]
    IN  [ret  |-> NoneRet,
         self |-> [self EXCEPT
             !.num_orders = @ - 1,
             !.position_after_orders = @ - bid[2],
             !.volume = @ - bid[2],
             !.vol_bids = @ - bid[2],
             !.bids = RemoveAt(@, i)]]

\* The bids loop of remove_order, for the bid at index i.
remove_bid(self, i, order_id) ==
    LET bid == self.bids[i]
    IN  [ret  |-> NoneRet,
         self |-> [self EXCEPT
             !.num_orders = @ - 1,
             !.position_after_orders = @ - bid[2],
             !.volume = @ - bid[2],
             !.vol_bids = @ - bid[2],
             !.bids = RemoveAt(@, i),
             !.cancelled_orders = DictSet(@, order_id, BID)]]

\* The asks loop of remove_order, for the ask at index j.
remove_ask(self, j, order_id) ==
    LET ask == self.asks[j]
    IN  [ret  |-> NoneRet,
         self |-> [self EXCEPT
             !.num_orders = @ - 1,
             !.position_after_orders = @ + ask[2],
             !.volume = @ - ask[2],
             !.vol_asks = @ - ask[2],
             !.asks = RemoveAt(@, j),
             !.cancelled_orders = DictSet(@, order_id, ASK)]]

remove_order(self, order_id) ==
    LET i == IndexOfId(self.bids, order_id)
        j == IndexOfId(self.asks, order_id)
    IN  IF i # 0 THEN remove_bid(self, i, order_id)
        ELSE IF j # 0 THEN remove_ask(self, j, order_id)
        ELSE [ret |-> NoneRet, self |-> self]

\* ScanStep keeping the earlier order on equal distance.
ScanStep_first_wins(acc, order, side, market_price) ==
    LET curr_diff == Abs(market_price - order[1])
    IN  IF curr_diff > acc.max_diff
        THEN [max_diff |-> curr_diff, order_id |-> order[3],
              order |-> order, remove_side |-> side]
        ELSE acc

\* One step of the two scan loops of remove_least_useful_order: acc holds
\* max_diff, order_id, order and remove_side (order <<>> and remove_side ""
\* stand for None).
ScanStep(acc, order, side, market_price) ==
    LET curr_diff == Abs(market_price - order[1])
    IN  IF curr_diff > acc.max_diff
           \/ (curr_diff = acc.max_diff /\ order[3] > acc.order_id)
        THEN [max_diff |-> curr_diff, order_id |-> order[3],
              order |-> order, remove_side |-> side]
        ELSE acc

RECURSIVE ScanFrom(_, _, _, _, _)
ScanFrom(acc, s, i, side, market_price) ==
    IF i > Len(s) THEN acc
    ELSE ScanFrom(ScanStep(acc, s[i], side, market_price), s, i + 1, side, market_price)

\* The locals of remove_least_useful_order after its two loops.
Scan(self, market_price) ==
    LET start == [max_diff |-> -1, order_id |-> -1, order |-> <<>>, remove_side |-> ""]
        afterBids == ScanFrom(start, self.bids, 1, BID, market_price)
    IN  ScanFrom(afterBids, self.asks, 1, ASK, market_price)

\* remove_least_useful_order keeping the selected order whenever its price
\* is the proposed price, on either side.
remove_least_useful_order_price_only(self, market_price, price, side) ==
    LET sel == Scan(self, market_price)
    IN  IF sel.order = <<>> THEN
            [ret |-> Ret(FALSE, 0, "TypeError", <<>>), self |-> self]
        ELSE IF sel.order[1] = price THEN
            [ret |-> NoneRet, self |-> self]
        ELSE
            [ret  |-> Ret(TRUE, sel.order_id, "", <<>>),
             self |-> remove_order(self, sel.order_id).self]

remove_least_useful_order(self, market_price, price, side) ==
    LET sel == Scan(self, market_price)
    IN  IF sel.order = <<>> THEN
            [ret |-> Ret(FALSE, 0, "TypeError", <<>>), self |-> self]
        ELSE IF sel.order[1] = price /\ side = sel.remove_side THEN
            [ret |-> NoneRet, self |-> self]
        ELSE
            [ret  |-> Ret(TRUE, sel.order_id, "", <<>>),
             self |-> remove_order(self, sel.order_id).self]

\* calc_profit_or_loss valuing the position at the unclamped ETF price
calc_profit_or_loss_unclamped(self, future_price, etf_price) ==
    self.future_position * future_price + self.position * etf_price

\* calc_profit_or_loss: the value returned.  round(0.02 * future_price) is
\* Round(2 * future_price, 100); delta % 100 of Python is never negative.
calc_profit_or_loss(self, future_price, etf_price) ==
    LET rounded   == Round(2 * future_price, 100)
        delta     == rounded - (rounded % 100)
        min_price == future_price - delta
        max_price == future_price + delta
        clamped   == IF etf_price < min_price THEN min_price
                     ELSE IF etf_price > max_price THEN max_price
                     ELSE etf_price
    IN  self.future_position * future_price + self.position * clamped

----------------------------------------------------------------------------
(* class AutoTrader: the submission handlers                               *)

\* the self.last_time_called.pop(0) loop of rolling_period_limit
RECURSIVE DropOld(_, _)
DropOld(times, time_limit) ==
    IF times # <<>> /\ Head(times) < time_limit
    THEN DropOld(Tail(times), time_limit)
    ELSE times

\* rolling_period_limit forgetting every grant older than now
rolling_period_limit_short_window(times, now) ==
    LET kept == DropOld(times, now)
    IN  IF Len(kept) = 50
        THEN [ok |-> FALSE, last_time_called |-> kept]
        ELSE [ok |-> TRUE, last_time_called |-> Append(kept, now)]

\* rolling_period_limit at time now: ok is the value returned,
\* last_time_called the list it leaves.
rolling_period_limit(times, now) ==
    LET kept == DropOld(times, now - 1)
    IN  IF Len(kept) = 50
        THEN [ok |-> FALSE, last_time_called |-> kept]
        ELSE [ok |-> TRUE, last_time_called |-> Append(kept, now)]

\* the messages send_insert_order and send_cancel_order put on the wire
InsertOrder(id, side, price, vol) ==
    [type |-> "insert", id |-> id, side |-> side, price |-> price, vol |-> vol]

CancelOrder(id) ==
    [type |-> "cancel", id |-> id, side |-> "", price |-> 0, vol |-> 0]

\* a second of the clock in which nothing was granted or sent
Quiet == [granted |-> 0, sent |-> 0]

\* The steps of one send_buy_order or send_sell_order: limited is 1 or 2 when
\* the first or the second rolling_period_limit returned False, first the
\* result of the first add, evicting whether remove_least_useful_order was
\* called and evict its result, mid the ledger after it, retried and retry
\* the second add, sent the messages put on the wire.
NoOut ==
    [limited |-> 0, first |-> NoneRet, evicting |-> FALSE, evict |-> NoneRet,
     mid |-> OrderBook, retried |-> FALSE, retry |-> NoneRet, sent |-> <<>>]

\* can keeping its initial True after a rejected retry
can_after_eviction(first, retried, retry) == first.ok \/ retried

\* the local can when the handler reaches its last statement
can(first, retried, retry) == first.ok \/ (retried /\ retry.ok)

\* buy_evicts taking every rejection for a reason to evict
buy_evicts_always(code) == TRUE

\* the codes after which send_buy_order evicts (line 291)
buy_evicts(code) == code = 0 \/ code = 1 \/ code = 3

\* the codes after which send_sell_order evicts (line 324)
sell_evicts(code) == code = 0 \/ code = 1

\* The body the two handlers share, book_side being BID in send_buy_order
\* and ASK in send_sell_order: add is add_bid or add_ask, evicts the test on
\* the rejection code, wire_side the side of the insert message.
send_order(ob, id, times, now, market, price, lot_size, book_side) ==
    LET add(book, p, v, i) == IF book_side = BID THEN add_bid(book, p, v, i)
                              ELSE add_ask(book, p, v, i)
        evicts(code) == IF book_side = BID THEN buy_evicts(code) ELSE sell_evicts(code)
        wire_side == IF book_side = BID THEN BUY ELSE SELL
        lim1  == rolling_period_limit(times, now)
        first == add(ob, price, lot_size, id)
        lim2  == rolling_period_limit(lim1.last_time_called, now)
        ev    == remove_least_useful_order(ob, market, price, book_side)
        retry == add(ev.self, price, lot_size, id)
        base  == [NoOut EXCEPT !.mid = ob]
        tried == [base EXCEPT !.first = first.ret]
        Result(book, next_id, granted, raised, o) ==
            [order_book |-> book, order_ids |-> next_id,
             last_time_called |-> granted, raised |-> raised, out |-> o]
    IN  IF ~lim1.ok THEN
            Result(ob, id, lim1.last_time_called, "", [base EXCEPT !.limited = 1])
        ELSE IF first.ret.ok THEN
            Result(first.self, id + 1, lim1.last_time_called, "",
                   [tried EXCEPT !.sent =
                       IF can(first.ret, FALSE, NoneRet)
                       THEN <<InsertOrder(id, wire_side, price, first.ret.val)>>
                       ELSE <<>>])
        ELSE IF ~evicts(first.ret.val) THEN
            Result(ob, id + 1, lim1.last_time_called, "", tried)
        ELSE IF ~lim2.ok THEN
            Result(ob, id + 1, lim2.last_time_called, "", [tried EXCEPT !.limited = 2])
        ELSE IF ~ev.ret.ok THEN
            Result(ob, id + 1, lim2.last_time_called, ev.ret.raised,
                   [tried EXCEPT !.evicting = TRUE, !.evict = ev.ret])
        ELSE
            Result(retry.self, id + 1, lim2.last_time_called, "",
                   [tried EXCEPT !.evicting = TRUE, !.evict = ev.ret, !.mid = ev.self,
                                 !.retried = TRUE, !.retry = retry.ret,
                                 !.sent = <<CancelOrder(ev.ret.val)>> \o
                                     IF can(first.ret, TRUE, retry.ret)
                                     THEN <<InsertOrder(id, wire_side, price, retry.ret.val)>>
                                     ELSE <<>>])

send_buy_order(ob, id, times, now, market, price, lot_size) ==
    send_order(ob, id, times, now, market, price, lot_size, BID)

send_sell_order(ob, id, times, now, market, price, lot_size) ==
    send_order(ob, id, times, now, market, price, lot_size, ASK)

----------------------------------------------------------------------------
(* The environment: the calls made on the ledger and the exchange's view.  *)

Prices == {1 * TICK_SIZE_IN_CENTS, 2 * TICK_SIZE_IN_CENTS, 3 * TICK_SIZE_IN_CENTS}

\* prices of the submissions the environment chooses freely
FreePrices == {1 * TICK_SIZE_IN_CENTS, 3 * TICK_SIZE_IN_CENTS}

\* lot sizes the strategy asks for: LOT_SIZE and min(abs(position), VOLUME_LIMIT)
Lots == {LOT_SIZE, VOLUME_LIMIT}

\* A fill notified for an order with left lots unfilled at the exchange: the
\* rest of it, or half of an untouched full lot.  The total filled never
\* exceeds the volume the order was accepted with.
FillVolumes(left) ==
    (IF left > 0 THEN {left} ELSE {}) \cup (IF left \in Lots THEN {left \div 2} ELSE {})

Call(op, price, vol, id, side, market) ==
    [op |-> op, price |-> price, vol |-> vol, id |-> id, side |-> side, market |-> market]

CallAddBid(price, vol) == Call("add_bid", price, vol, 0, BID, 0)
CallAddAsk(price, vol) == Call("add_ask", price, vol, 0, ASK, 0)
CallAmend(vol, id) == Call("amend_order", 0, vol, id, "", 0)
CallRemove(id) == Call("remove_order", 0, 0, id, "", 0)
CallEvict(market, price, side) == Call("remove_least_useful_order", price, 0, 0, side, market)

\* The handlers run inside the connection's data_received callback: an
\* exception that escapes one ends the session, no later call is made.
Running == last.ret.raised = ""

\* a scripted call is the next one of the script; a free call needs the
\* script to be over
Scripted(c) == script # <<>> /\ Head(script) = c

Free == script = <<>> /\ steps > 0

May(c) == Running /\ (Scripted(c) \/ Free)

Record(c, r) == [call |-> c, ret |-> r.ret, pre |-> order_book]

SignedVolume(side, vol) == IF side = BID THEN vol ELSE -vol

\* the exchange's view after an order was accepted with volume val
Accept(id, side, val) ==
    IF val > 0 THEN (id :> [side |-> side, left |-> val]) @@ venue ELSE venue

\* the exchange's view after vol lots of order id were filled
Filled(id, vol) ==
    IF venue[id].left = vol
    THEN [k \in DOMAIN venue \ {id} |-> venue[k]]
    ELSE [venue EXCEPT ![id].left = @ - vol]


\* Once it chooses freely the exchange fills or rejects only the Window most
\* recently submitted orders.
Window == 2

Recent(id) == id >= order_ids - Window

\* the lot size of the crowded prefix: min(abs(position), VOLUME_LIMIT) of a small position
SmallLot == LOT_SIZE \div 2

P1 == 1 * TICK_SIZE_IN_CENTS
P2 == 2 * TICK_SIZE_IN_CENTS
P3 == 3 * TICK_SIZE_IN_CENTS

\* four full lots bought and filled: position 800
ScriptLong ==
    [n \in 1..8 |-> IF n % 2 = 1 THEN CallAddBid(P2, VOLUME_LIMIT)
                    ELSE CallAmend(VOLUME_LIMIT, n \div 2)]

\* four full lots sold and filled: position -800
ScriptShort ==
    [n \in 1..8 |-> IF n % 2 = 1 THEN CallAddAsk(P2, VOLUME_LIMIT)
                    ELSE CallAmend(VOLUME_LIMIT, n \div 2)]

\* nine small orders resting, five bids and four asks: volume 180
ScriptCrowd ==
    [n \in 1..9 |-> IF n % 2 = 1
                    THEN CallAddBid(IF n % 4 = 1 THEN P1 ELSE P2, SmallLot)
                    ELSE CallAddAsk(IF n % 4 = 2 THEN P3 ELSE P2, SmallLot)]

\* Ten full bids are cancelled locally and then all filled at the exchange
\* (position 2000); the position is sold down to 100 and five full asks rest.
ScriptOvershoot ==
    [n \in 1..20 |-> IF n % 2 = 1 THEN CallAddBid(P1, VOLUME_LIMIT)
                     ELSE CallRemove(n \div 2)]
    \o [n \in 1..10 |-> CallAmend(VOLUME_LIMIT, n)]
    \o <<CallAddBid(P1, LOT_SIZE)>>
    \o [n \in 1..18 |-> IF n % 2 = 1 THEN CallAddAsk(P3, VOLUME_LIMIT)
                        ELSE CallAmend(VOLUME_LIMIT, 11 + n \div 2)]
    \o <<CallAddAsk(P3, VOLUME_LIMIT), CallAmend(VOLUME_LIMIT \div 2, 21), CallRemove(21)>>
    \o [n \in 1..5 |-> CallAddAsk(P3, VOLUME_LIMIT)]

\* position 800, a full bid cancelled locally but still open at the exchange,
\* and a second full bid resting
ScriptLate ==
    ScriptLong \o <<CallAddBid(P1, VOLUME_LIMIT), CallRemove(5), CallAddBid(P3, VOLUME_LIMIT)>>

\* a full ask filled after its local cancellation (position -200 that the
\* cost basis never saw) and a bid resting
ScriptBasis ==
    <<CallAddAsk(P3, VOLUME_LIMIT), CallRemove(1), CallAmend(VOLUME_LIMIT, 1),
      CallAddBid(P1, LOT_SIZE)>>

Scripts == {<<>>, ScriptLong, ScriptShort, ScriptCrowd, ScriptLate, ScriptBasis, ScriptOvershoot}

----------------------------------------------------------------------------
(* The calls.                                                              *)

Init ==
    /\ order_book = OrderBook
    /\ order_ids = 1
    /\ venue = EmptyDict
    /\ fills = 0
    /\ last = [call |-> Call("__init__", 0, 0, 0, "", 0), ret |-> NoneRet, pre |-> OrderBook]
    /\ script \in Scripts
    /\ steps = MaxSteps
    /\ last_time_called = <<>>
    /\ clock = 0
    /\ etf_market_price = 0
    /\ out = NoOut
    /\ wire = <<Quiet>>

\* what a call leaves of the script and of the free calls
Advance ==
    IF script # <<>>
    THEN script' = Tail(script) /\ steps' = steps
    ELSE script' = script /\ steps' = steps - 1

\* id = next(self.order_ids); order = self.order_book.add_bid(price, lot_size, id)
AddBid ==
    \E price \in Prices, vol \in Lots \cup {SmallLot} :
        LET c == CallAddBid(price, vol)
            r == add_bid(order_book, price, vol, order_ids)
        IN  /\ May(c)
            /\ Free => (price \in FreePrices /\ vol \in Lots)
            /\ order_book' = r.self
            /\ order_ids' = order_ids + 1
            /\ venue' = IF r.ret.ok THEN Accept(order_ids, BID, r.ret.val) ELSE venue
            /\ last' = Record([c EXCEPT !.id = order_ids], r)
            /\ Advance
            /\ UNCHANGED trader
            /\ UNCHANGED fills

AddAsk ==
    \E price \in Prices, vol \in Lots \cup {SmallLot} :
        LET c == CallAddAsk(price, vol)
            r == add_ask(order_book, price, vol, order_ids)
        IN  /\ May(c)
            /\ Free => (price \in FreePrices /\ vol \in Lots)
            /\ order_book' = r.self
            /\ order_ids' = order_ids + 1
            /\ venue' = IF r.ret.ok THEN Accept(order_ids, ASK, r.ret.val) ELSE venue
            /\ last' = Record([c EXCEPT !.id = order_ids], r)
            /\ Advance
            /\ UNCHANGED trader
            /\ UNCHANGED fills

\* on_order_filled_message: self.order_book.amend_order(self, volume, client_order_id)
AmendOrder ==
    \E id \in DOMAIN venue :
        \E vol \in FillVolumes(venue[id].left) :
            LET c == CallAmend(vol, id)
                r == amend_order(order_book, vol, id)
            IN  /\ May(c)
                /\ Free => Recent(id)
                /\ order_book' = r.self
                /\ venue' = Filled(id, vol)
                /\ fills' = fills + SignedVolume(venue[id].side, vol)
                /\ last' = Record(c, r)
                /\ Advance
                /\ UNCHANGED trader
                /\ UNCHANGED order_ids

\* on_order_filled_message for an id the trader never issued: the exchange
\* holds no such order, so its view and the fills total are unchanged.
AmendUnknown ==
    LET c == CallAmend(LOT_SIZE, order_ids)
        r == amend_order(order_book, LOT_SIZE, order_ids)
    IN  /\ May(c)
        /\ order_book' = r.self
        /\ last' = Record(c, r)
        /\ Advance
        /\ UNCHANGED trader
        /\ UNCHANGED <<order_ids, venue, fills>>

\* on_error_message: self.order_book.remove_order(client_order_id)
RemoveOrder ==
    \E id \in 1..(order_ids - 1) :
        LET c == CallRemove(id)
            r == remove_order(order_book, id)
        IN  /\ May(c)
            /\ Free => Recent(id)
            /\ order_book' = r.self
            /\ last' = Record(c, r)
            /\ Advance
            /\ UNCHANGED trader
            /\ UNCHANGED <<order_ids, venue, fills>>

RemoveLeastUsefulOrder ==
    \E market \in Prices, price \in FreePrices, side \in {BID, ASK} :
        LET c == CallEvict(market, price, side)
            r == remove_least_useful_order(order_book, market, price, side)
        IN  /\ May(c)
            /\ order_book' = r.self
            /\ last' = Record(c, r)
            /\ Advance
            /\ UNCHANGED trader
            /\ UNCHANGED <<order_ids, venue, fills>>

Next ==
    \/ AddBid
    \/ AddAsk
    \/ AmendOrder
    \/ AmendUnknown
    \/ RemoveOrder
    \/ RemoveLeastUsefulOrder

Spec == Init /\ [][Next]_vars

----------------------------------------------------------------------------
(* calc_average_price on its own: the cost-basis fields and the position   *)
(* are drawn from bounded sets, then one fill is applied.                  *)

\* largest position, accumulator and fill, in lots
AvgLots == 3

\* average_price before the fill: none, a traded price, and 133, which is
\* round((100 + 100 + 200) / 3)
AvgBases == {0, 133, P2}

AvgInputs ==
    {[OrderBook EXCEPT !.position = p,
                       !.future_position = -p,
                       !.total_buy_volume = b,
                       !.total_sell_volume = s,
                       !.average_price = a] :
        p \in (-AvgLots)..AvgLots, b \in (-1)..AvgLots, s \in (-1)..AvgLots, a \in AvgBases}

CallAverage(price, vol, side) == Call("calc_average_price", price, vol, 0, side, 0)

InitAverage ==
    /\ order_book \in AvgInputs
    /\ order_ids = 1
    /\ venue = EmptyDict
    /\ fills = 0
    /\ last = [call |-> Call("__init__", 0, 0, 0, "", 0), ret |-> NoneRet, pre |-> OrderBook]
    /\ script = <<>>
    /\ steps = 1
    /\ last_time_called = <<>>
    /\ clock = 0
    /\ etf_market_price = 0
    /\ out = NoOut
    /\ wire = <<Quiet>>

CalcAveragePrice ==
    \E price \in Prices, vol \in 1..AvgLots, side \in {BUY, SELL} :
        LET r == calc_average_price(order_book, price, vol, side)
        IN  /\ steps > 0
            /\ order_book' = r.self
            /\ last' = [call |-> CallAverage(price, vol, side),
                        ret  |-> IF r.raised THEN Ret(FALSE, 0, "ZeroDivisionError", <<>>)
                                 ELSE NoneRet,
                        pre  |-> order_book]
            /\ steps' = steps - 1
            /\ UNCHANGED <<order_ids, venue, fills, script>>
            /\ UNCHANGED trader

NextAverage == CalcAveragePrice

SpecAverage == InitAverage /\ [][NextAverage]_vars

----------------------------------------------------------------------------
(* calc_profit_or_loss on its own: the two positions and the two prices    *)
(* are drawn from bounded sets, then the function is applied once.         *)

\* largest position and future position, in lots
ProfitLots == 10

\* Future prices: last traded prices are midpoints of two multiples of
\* TICK_SIZE_IN_CENTS, 2 % of them just below and at 100 and 200.
FuturePrices == {4950, 5000, 9950, 10000}

\* what the ETF price is above the future price
ProfitOffsets == {-500, -200, -100, 0, 100, 200, 500}

ProfitInputs ==
    {[OrderBook EXCEPT !.position = p, !.future_position = f] :
        p \in (-ProfitLots)..ProfitLots, f \in (-ProfitLots)..ProfitLots}

CallProfit(future_price, etf_price) ==
    Call("calc_profit_or_loss", future_price, 0, 0, "", etf_price)

InitProfit ==
    /\ order_book \in ProfitInputs
    /\ order_ids = 1
    /\ venue = EmptyDict
    /\ fills = 0
    /\ last = [call |-> Call("__init__", 0, 0, 0, "", 0), ret |-> NoneRet, pre |-> OrderBook]
    /\ script = <<>>
    /\ steps = 1
    /\ last_time_called = <<>>
    /\ clock = 0
    /\ etf_market_price = 0
    /\ out = NoOut
    /\ wire = <<Quiet>>

CalcProfitOrLoss ==
    \E future_price \in FuturePrices, offset \in ProfitOffsets :
        LET c == CallProfit(future_price, future_price + offset)
            r == calc_profit_or_loss(order_book, future_price, future_price + offset)
        IN  /\ steps > 0
            /\ last' = [call |-> c, ret |-> Ret(TRUE, r, "", <<>>), pre |-> order_book]
            /\ steps' = steps - 1
            /\ UNCHANGED <<order_book, order_ids, venue, fills, script>>
            /\ UNCHANGED trader

NextProfit == CalcProfitOrLoss

SpecProfit == InitProfit /\ [][NextProfit]_vars

----------------------------------------------------------------------------
(* The AutoTrader: submissions go through send_buy_order and               *)
(* send_sell_order, fills and rejections come back from the exchange,      *)
(* trade ticks move the market price and time passes.                      *)

CallSendBuy(price, lot_size) == Call("send_buy_order", price, lot_size, 0, BID, 0)
CallSendSell(price, lot_size) == Call("send_sell_order", price, lot_size, 0, ASK, 0)
CallTradeTicks(price) == Call("on_trade_ticks_message", price, 0, 0, "", 0)
CallTime == Call("time", 0, 0, 0, "", 0)

\* five full lots bought and filled: position 1000
TraderLong ==
    [n \in 1..10 |-> IF n % 2 = 1 THEN CallSendBuy(P2, VOLUME_LIMIT)
                     ELSE CallAmend(VOLUME_LIMIT, n \div 2)]

\* five full lots sold and filled: position -1000
TraderShort ==
    [n \in 1..10 |-> IF n % 2 = 1 THEN CallSendSell(P2, VOLUME_LIMIT)
                     ELSE CallAmend(VOLUME_LIMIT, n \div 2)]

\* ten small orders resting, five bids and five asks, market at P2
TraderCrowd ==
    <<CallTradeTicks(P2)>> \o
    [n \in 1..10 |-> IF n % 2 = 1
                     THEN CallSendBuy(IF n % 4 = 1 THEN P1 ELSE P2, SmallLot)
                     ELSE CallSendSell(IF n % 4 = 2 THEN P3 ELSE P2, SmallLot)]

\* position 1000 and ten small asks resting
TraderFull ==
    TraderLong \o [n \in 1..10 |-> CallSendSell(P3, SmallLot)]

\* position 900 and the open half of a full bid: position + vol_bids is 1000
TraderEdgeLong ==
    SubSeq(TraderLong, 1, 9) \o <<CallAmend(VOLUME_LIMIT \div 2, 5)>>

\* position -900 and the open half of a full ask: -position + vol_asks is 1000
TraderEdgeShort ==
    SubSeq(TraderShort, 1, 9) \o <<CallAmend(VOLUME_LIMIT \div 2, 5)>>

\* Fifty orders sent within one second: a full lot bought and filled, then
\* sold and filled, twenty-five times over.
TraderChurn ==
    [n \in 1..100 |-> IF n % 4 = 1 THEN CallSendBuy(P2, VOLUME_LIMIT)
                      ELSE IF n % 4 = 3 THEN CallSendSell(P2, VOLUME_LIMIT)
                      ELSE CallAmend(VOLUME_LIMIT, n \div 2)]

\* Forty-nine submissions granted within one second: position 1000, then a
\* lot offered, forty-two buys turned down for the position and a full lot
\* offered that takes the rest of the volume.
TraderBurst ==
    TraderLong
    \o <<CallSendSell(P3, LOT_SIZE)>>
    \o [n \in 1..42 |-> CallSendBuy(P1, LOT_SIZE)]
    \o <<CallSendSell(P3, VOLUME_LIMIT)>>

TraderScripts ==
    {<<>>, TraderLong, TraderShort, TraderCrowd, TraderFull,
     TraderEdgeLong, TraderEdgeShort, TraderBurst, TraderChurn}

InitTrader ==
    /\ order_book = OrderBook
    /\ order_ids = 1
    /\ venue = EmptyDict
    /\ fills = 0
    /\ last = [call |-> Call("__init__", 0, 0, 0, "", 0), ret |-> NoneRet, pre |-> OrderBook]
    /\ script \in TraderScripts
    /\ steps = MaxSteps
    /\ last_time_called = <<>>
    /\ clock = 0
    /\ etf_market_price = 0
    /\ out = NoOut
    /\ wire = <<Quiet>>

\* the exchange's view after the messages of one handler: an insert opens
\* the order, a cancel may still be overtaken by fills
Opened(sent, side) ==
    IF sent # <<>> /\ sent[Len(sent)].type = "insert"
    THEN Accept(sent[Len(sent)].id, side, sent[Len(sent)].vol)
    ELSE venue

\* how often rolling_period_limit returned True in a handler call: the first
\* call unless it was the one that declined, the second when the eviction ran
Grants(o) == (IF o.limited = 1 THEN 0 ELSE 1) + (IF o.evicting THEN 1 ELSE 0)

\* the state after the handler call c with result r
Submit(c, r, side) ==
    /\ order_book' = r.order_book
    /\ order_ids' = r.order_ids
    /\ last_time_called' = r.last_time_called
    /\ out' = r.out
    /\ wire' = [wire EXCEPT ![clock + 1] =
                    [granted |-> @.granted + Grants(r.out), sent |-> @.sent + Len(r.out.sent)]]
    /\ venue' = Opened(r.out.sent, side)
    /\ last' = [call |-> [c EXCEPT !.id = order_ids, !.market = etf_market_price],
                ret  |-> Ret(r.out.sent # <<>>, Len(r.out.sent), r.raised, <<>>),
                pre  |-> order_book]
    /\ Advance
    /\ UNCHANGED <<fills, clock, etf_market_price>>

SendBuyOrder ==
    \E price \in Prices, lot_size \in Lots \cup {SmallLot} :
        LET c == CallSendBuy(price, lot_size)
            r == send_buy_order(order_book, order_ids, last_time_called, clock,
                                etf_market_price, price, lot_size)
        IN  /\ May(c)
            /\ Free => (price \in FreePrices /\ lot_size \in Lots)
            /\ Submit(c, r, BID)

SendSellOrder ==
    \E price \in Prices, lot_size \in Lots \cup {SmallLot} :
        LET c == CallSendSell(price, lot_size)
            r == send_sell_order(order_book, order_ids, last_time_called, clock,
                                 etf_market_price, price, lot_size)
        IN  /\ May(c)
            /\ Free => (price \in FreePrices /\ lot_size \in Lots)
            /\ Submit(c, r, ASK)

\* on_trade_ticks_message for the ETF with a last traded price
OnTradeTicks ==
    \E price \in Prices :
        LET c == CallTradeTicks(price)
        IN  /\ May(c)
            /\ etf_market_price' = price
            /\ last' = [call |-> c, ret |-> NoneRet, pre |-> order_book]
            /\ Advance
            /\ UNCHANGED <<order_book, order_ids, venue, fills, last_time_called, clock, out, wire>>

\* a second passes on the event loop's clock
TimePasses ==
    /\ May(CallTime)
    /\ clock' = clock + 1
    /\ wire' = Append(wire, Quiet)
    /\ last' = [call |-> CallTime, ret |-> NoneRet, pre |-> order_book]
    /\ Advance
    /\ UNCHANGED <<order_book, order_ids, venue, fills, last_time_called, etf_market_price, out>>

NextTrader ==
    \/ SendBuyOrder
    \/ SendSellOrder
    \/ AmendOrder
    \/ AmendUnknown
    \/ RemoveOrder
    \/ OnTradeTicks
    \/ TimePasses

SpecTrader == InitTrader /\ [][NextTrader]_vars


----------------------------------------------------------------------------
(* Properties.                                                             *)

IsAdd == last.call.op \in {"add_bid", "add_ask"}

Rejected == IsAdd /\ ~last.ret.ok

Min3(a, b, c) == Min(Min(a, b), c)

\* C1: in every state volume == vol_bids + vol_asks and
\* num_orders == len(bids) + len(asks).
C1_Counters ==
    /\ order_book.volume = order_book.vol_bids + order_book.vol_asks
    /\ order_book.num_orders = Len(order_book.bids) + Len(order_book.asks)

\* an eviction has just removed an order from a ledger that has seen a fill
\* and still holds orders on both sides
C1_Witness ==
    /\ last.call.op = "remove_least_useful_order"
    /\ last.ret.ok
    /\ order_book.position # 0
    /\ order_book.bids # <<>>
    /\ order_book.asks # <<>>

\* C2: |position| <= POSITION_LIMIT in every state, fills never exceeding the
\* volume an order was accepted with, late fills of cancelled orders included.
C2_PositionWithinLimit == Abs(order_book.position) <= POSITION_LIMIT

\* C3: vol_bids >= 0, vol_asks >= 0 and 0 <= volume <= VOLUME_LIMIT in every
\* state.
C3_VolumesWithinLimits ==
    /\ order_book.vol_bids >= 0
    /\ order_book.vol_asks >= 0
    /\ order_book.volume >= 0
    /\ order_book.volume <= VOLUME_LIMIT

\* C4: position_after_orders == position + vol_bids - vol_asks after every
\* mutation of the ledger.
C4_PositionAfterOrders ==
    order_book.position_after_orders
        = order_book.position + order_book.vol_bids - order_book.vol_asks

\* C5: after each amend_order call position equals the signed sum (bid fills
\* minus ask fills) of all fill volumes notified so far.
C5_FillsApplied ==
    last.call.op = "amend_order" => order_book.position = fills

\* the four rejection conditions of a submission on side side in ledger ob
Cond0(ob) == ob.num_orders >= ORDER_LIMIT
Cond1(ob) == ob.volume = VOLUME_LIMIT
Cond2(ob, side) ==
    IF side = BID THEN ob.position = POSITION_LIMIT ELSE ob.position = -POSITION_LIMIT
Cond3(ob, side) ==
    IF side = BID THEN ob.position + ob.vol_bids = POSITION_LIMIT
    ELSE -ob.position + ob.vol_asks = POSITION_LIMIT

\* C6: a submission is rejected if and only if one of the four conditions
\* holds in the ledger before the call, and the code returned is the first
\* that holds in the order 0, 1, 2, 3.
C6_RejectionCodes ==
    IsAdd =>
        LET ob   == last.pre
            side == last.call.side
        IN  /\ ~last.ret.ok <=>
                  (Cond0(ob) \/ Cond1(ob) \/ Cond2(ob, side) \/ Cond3(ob, side))
            /\ ~last.ret.ok =>
                  /\ last.ret.val \in 0..3
                  /\ last.ret.val = 0 <=> Cond0(ob)
                  /\ last.ret.val = 1 <=> (~Cond0(ob) /\ Cond1(ob))
                  /\ last.ret.val = 2 <=> (~Cond0(ob) /\ ~Cond1(ob) /\ Cond2(ob, side))
                  /\ last.ret.val = 3 <=>
                        (~Cond0(ob) /\ ~Cond1(ob) /\ ~Cond2(ob, side) /\ Cond3(ob, side))

\* a bid rejected with code 0 although the volume is at its limit as well
C6_Witness ==
    /\ last.call.op = "add_bid"
    /\ ~last.ret.ok
    /\ last.ret.val = 0
    /\ Cond1(last.pre)

\* C7 as stated: with volume == VOLUME_LIMIT any add_bid returns (False, 1).
C7_Original ==
    (last.call.op = "add_bid" /\ last.pre.volume = VOLUME_LIMIT)
        => (~last.ret.ok /\ last.ret.val = 1)

\* C7 amended: with volume == VOLUME_LIMIT any add_bid is rejected, with
\* code 1 when num_orders < ORDER_LIMIT and with code 0 otherwise.
C7_Amended ==
    (last.call.op = "add_bid" /\ last.pre.volume = VOLUME_LIMIT)
        => /\ ~last.ret.ok
           /\ last.ret.val = IF last.pre.num_orders < ORDER_LIMIT THEN 1 ELSE 0

\* a bid rejected with code 1 by a ledger whose volume is at its limit
C7_Witness ==
    /\ last.call.op = "add_bid"
    /\ last.pre.volume = VOLUME_LIMIT
    /\ last.pre.num_orders < ORDER_LIMIT
    /\ ~last.ret.ok
    /\ last.ret.val = 1

\* C8: a rejected add_bid or add_ask leaves every field of the ledger, the
\* CancelledOrderRegistry included, as it was before the call.
C8_RejectionKeepsLedger == Rejected => order_book = last.pre

\* a submission rejected by a ledger that holds orders, a position, a cost
\* basis and a cancelled order
C8_Witness ==
    /\ Rejected
    /\ last.pre.num_orders > 0
    /\ last.pre.position # 0
    /\ last.pre.average_price # 0
    /\ DOMAIN last.pre.cancelled_orders # {}

\* C9: an accepted add_bid(price, v, id) with v > 0 returns and records
\* w = min(v, VOLUME_LIMIT - volume, POSITION_LIMIT - position - vol_bids) of
\* the ledger before the call, 0 < w <= v, <<price, w, id>> enters bids, and
\* w == v when v fits under both caps.
C9_AcceptedVolume ==
    (last.call.op = "add_bid" /\ last.ret.ok /\ last.call.vol > 0) =>
        LET ob == last.pre
            v  == last.call.vol
            w  == Min3(v, VOLUME_LIMIT - ob.volume,
                       POSITION_LIMIT - ob.position - ob.vol_bids)
        IN  /\ last.ret.val = w
            /\ 0 < w
            /\ w <= v
            /\ \E i \in 1..Len(order_book.bids) :
                   order_book.bids[i] = <<last.call.price, w, last.call.id>>
            /\ order_book.volume = ob.volume + w
            /\ (v + ob.volume <= VOLUME_LIMIT
                /\ ob.position + ob.vol_bids + v <= POSITION_LIMIT) => w = v

\* the ledger with the two sides exchanged
Mirror(ob) ==
    [ position              |-> -ob.position,
      position_after_orders |-> -ob.position_after_orders,
      volume                |-> ob.volume,
      num_orders            |-> ob.num_orders,
      asks                  |-> ob.bids,
      bids                  |-> ob.asks,
      vol_asks              |-> ob.vol_bids,
      vol_bids              |-> ob.vol_asks,
      average_price         |-> ob.average_price,
      total_buy_volume      |-> ob.total_sell_volume,
      total_sell_volume     |-> ob.total_buy_volume,
      future_position       |-> -ob.future_position,
      last_buy              |-> ob.last_sell,
      last_sell             |-> ob.last_buy,
      cancelled_orders      |-> [k \in DOMAIN ob.cancelled_orders |->
                                    IF ob.cancelled_orders[k] = BID THEN ASK ELSE BID] ]

\* C10: add_ask returns what add_bid returns on the mirrored ledger and
\* leaves the mirror of what add_bid leaves; an accepted ask has the volume
\* min(requested, VOLUME_LIMIT - volume, POSITION_LIMIT + position - vol_asks).
C10_AskMirrorsBid ==
    last.call.op = "add_ask" =>
        LET ob == last.pre
            m  == add_bid(Mirror(ob), last.call.price, last.call.vol, last.call.id)
        IN  /\ last.ret = m.ret
            /\ Mirror(order_book) = m.self
            /\ last.ret.ok =>
                  last.ret.val = Min3(last.call.vol, VOLUME_LIMIT - ob.volume,
                                      POSITION_LIMIT + ob.position - ob.vol_asks)

\* The fill of last.call applied to a resting order of the pre-state.
IsAmend == last.call.op = "amend_order"

BidIndex == IndexOfId(last.pre.bids, last.call.id)

AskIndex == IndexOfId(last.pre.asks, last.call.id)

\* The list s with the volume of its i-th order reduced by v, the order
\* dropped when nothing remains.
Reduced(s, i, v) ==
    IF s[i][2] - v = 0 THEN RemoveAt(s, i)
    ELSE [s EXCEPT ![i] = <<s[i][1], s[i][2] - v, s[i][3]>>]

Closed(s, i, v) == IF s[i][2] - v = 0 THEN 1 ELSE 0

\* C12: amend_order(v, id) for a resting order with remaining volume
\* w >= v > 0 adds v to position (bid) or subtracts it (ask), moves
\* future_position the other way, takes v off volume and the side counter,
\* leaves the order with w - v, removes it and decrements num_orders iff
\* w - v == 0, and leaves every other order, position_after_orders and the
\* registry unchanged.
C12_RestingFill ==
    IsAmend =>
        LET pre == last.pre
            v == last.call.vol
        IN  /\ (BidIndex # 0 /\ v > 0 /\ pre.bids[BidIndex][2] >= v) =>
                   /\ order_book.position = pre.position + v
                   /\ order_book.future_position = pre.future_position - v
                   /\ order_book.volume = pre.volume - v
                   /\ order_book.vol_bids = pre.vol_bids - v
                   /\ order_book.vol_asks = pre.vol_asks
                   /\ order_book.bids = Reduced(pre.bids, BidIndex, v)
                   /\ order_book.asks = pre.asks
                   /\ order_book.num_orders = pre.num_orders - Closed(pre.bids, BidIndex, v)
                   /\ order_book.position_after_orders = pre.position_after_orders
                   /\ order_book.cancelled_orders = pre.cancelled_orders
            /\ (BidIndex = 0 /\ AskIndex # 0 /\ v > 0 /\ pre.asks[AskIndex][2] >= v) =>
                   /\ order_book.position = pre.position - v
                   /\ order_book.future_position = pre.future_position + v
                   /\ order_book.volume = pre.volume - v
                   /\ order_book.vol_asks = pre.vol_asks - v
                   /\ order_book.vol_bids = pre.vol_bids
                   /\ order_book.asks = Reduced(pre.asks, AskIndex, v)
                   /\ order_book.bids = pre.bids
                   /\ order_book.num_orders = pre.num_orders - Closed(pre.asks, AskIndex, v)
                   /\ order_book.position_after_orders = pre.position_after_orders
                   /\ order_book.cancelled_orders = pre.cancelled_orders

\* The fill of last.call is for an id that does not rest in the pre-state
\* but is in its registry.
RegistryFill ==
    /\ IsAmend
    /\ BidIndex = 0
    /\ AskIndex = 0
    /\ last.call.id \in DOMAIN last.pre.cancelled_orders

\* C13: amend_order for an id that is not resting but is in the registry
\* changes only position and future_position (+v/-v for a Bid, -v/+v for an
\* Ask); bids, asks, volume, vol_bids, vol_asks, num_orders and the registry
\* are unchanged.
C13_RegistryFillFrame ==
    RegistryFill =>
        LET pre == last.pre
            v == last.call.vol
            d == IF pre.cancelled_orders[last.call.id] = BID THEN v ELSE -v
        IN  order_book = [pre EXCEPT !.position = @ + d,
                                     !.future_position = @ - d]

C13_Witness ==
    /\ RegistryFill
    /\ last.pre.cancelled_orders[last.call.id] = ASK
    /\ last.pre.num_orders > 0
    /\ order_book.position = last.pre.position - last.call.vol
    /\ order_book.volume = last.pre.volume

\* The fill of last.call is for an id that neither rests in the pre-state
\* nor is in its registry.
UnknownFill ==
    /\ IsAmend
    /\ BidIndex = 0
    /\ AskIndex = 0
    /\ last.call.id \notin DOMAIN last.pre.cancelled_orders

IsRemove == last.call.op = "remove_order"

\* The ledger ob without the resting order order_id, as remove_order is
\* specified: the order leaves its side, the counters give up its remaining
\* volume, position_after_orders drops the order's contribution and the
\* registry learns the order's side.
Without(ob, order_id) ==
    LET i == IndexOfId(ob.bids, order_id)
        j == IndexOfId(ob.asks, order_id)
        w == IF i # 0 THEN ob.bids[i][2] ELSE ob.asks[j][2]
    IN  [position              |-> ob.position,
         future_position       |-> ob.future_position,
         position_after_orders |-> IF i # 0 THEN ob.position_after_orders - w
                                   ELSE ob.position_after_orders + w,
         volume                |-> ob.volume - w,
         vol_bids              |-> IF i # 0 THEN ob.vol_bids - w ELSE ob.vol_bids,
         vol_asks              |-> IF i # 0 THEN ob.vol_asks ELSE ob.vol_asks - w,
         num_orders            |-> ob.num_orders - 1,
         bids                  |-> IF i # 0 THEN RemoveAt(ob.bids, i) ELSE ob.bids,
         asks                  |-> IF i # 0 THEN ob.asks ELSE RemoveAt(ob.asks, j),
         cancelled_orders      |-> DictSet(ob.cancelled_orders, order_id,
                                           IF i # 0 THEN BID ELSE ASK),
         average_price         |-> ob.average_price,
         total_buy_volume      |-> ob.total_buy_volume,
         total_sell_volume     |-> ob.total_sell_volume,
         last_buy              |-> ob.last_buy,
         last_sell             |-> ob.last_sell]

\* C15: remove_order(id) for a resting id removes exactly that order,
\* decrements num_orders, takes its remaining volume off volume and the side
\* counter, moves position_after_orders by -vol (bid) or +vol (ask), leaves
\* position unchanged and records id -> side in the registry; for an id that
\* is not resting it changes nothing and adds nothing to the registry.
C15_RemoveOrder ==
    IsRemove =>
        IF BidIndex # 0 \/ AskIndex # 0
        THEN order_book = Without(last.pre, last.call.id)
        ELSE order_book = last.pre

C15_Witness ==
    /\ IsRemove
    /\ BidIndex # 0
    /\ last.pre.num_orders > 1
    /\ last.call.id \notin DOMAIN last.pre.cancelled_orders
    /\ last.call.id \in DOMAIN order_book.cancelled_orders
    /\ order_book.cancelled_orders[last.call.id] = BID
    /\ order_book.position = last.pre.position

IsEvict == last.call.op = "remove_least_useful_order"

\* The resting orders of ob, each with its side.
Resting(ob) ==
    {[price |-> ob.bids[i][1], vol |-> ob.bids[i][2], id |-> ob.bids[i][3], side |-> BID] :
        i \in 1..Len(ob.bids)}
    \cup
    {[price |-> ob.asks[j][1], vol |-> ob.asks[j][2], id |-> ob.asks[j][3], side |-> ASK] :
        j \in 1..Len(ob.asks)}

\* o is at least as far from market as q, the larger id deciding a tie.
Beats(o, q, market) ==
    \/ Abs(market - o.price) > Abs(market - q.price)
    \/ Abs(market - o.price) = Abs(market - q.price) /\ o.id >= q.id

\* The order the eviction policy names: farthest from market over both sides.
Farthest(ob, market) ==
    CHOOSE o \in Resting(ob) : \A q \in Resting(ob) : Beats(o, q, market)

Protected(ob, market, price, side) ==
    /\ Farthest(ob, market).price = price
    /\ Farthest(ob, market).side = side

IsAverage == last.call.op = "calc_average_price"

\* The four-case rule for a fill of v at price on a position that is q in
\* the direction of the fill (q = position for a buy, -position for a sell),
\* own being the accumulator of the fill's direction and other the opposite
\* one: <<own, other, average_price>> after the fill.
Reference(q, own, other, avg, price, v) ==
    IF q > 0 THEN <<own + v, other, Round(own * avg + price * v, own + v)>>
    ELSE IF q + v < 0 THEN <<own, other - v, avg>>
    ELSE IF q + v = 0 THEN <<0, 0, 0>>
    ELSE <<q + v, 0, price>>

\* C20: calc_average_price(price, v, side) on the pre-fill position p gives
\* the result of the four-case rule: extend (p has the sign of the fill)
\* average_price = round((acc * average_price + price * v) / (acc + v)) and
\* acc grows by v; reduce (the post-fill position keeps its sign) the
\* existing accumulator shrinks by v, average_price unchanged; close (the
\* post-fill position is 0) both accumulators and average_price become 0;
\* flip (first fill from flat included) the new direction's accumulator is
\* |p +- v|, the other 0, average_price the fill price.  The extend case
\* has a value when acc + v is not 0.
C20_AveragePriceRule ==
    IsAverage =>
        LET pre == last.pre
            c == last.call
            buy == c.side = BUY
            q == IF buy THEN pre.position ELSE -pre.position
            own == IF buy THEN pre.total_buy_volume ELSE pre.total_sell_volume
            other == IF buy THEN pre.total_sell_volume ELSE pre.total_buy_volume
            ref == Reference(q, own, other, pre.average_price, c.price, c.vol)
        IN  ~(q > 0 /\ own + c.vol = 0) =>
                /\ last.ret.raised = ""
                /\ order_book =
                       [pre EXCEPT !.total_buy_volume = IF buy THEN ref[1] ELSE ref[2],
                                   !.total_sell_volume = IF buy THEN ref[2] ELSE ref[1],
                                   !.average_price = ref[3]]

\* An extending buy whose exact average lies half-way between two integers.
C20_Witness ==
    /\ IsAverage
    /\ last.call.side = BUY
    /\ last.pre.position > 0
    /\ last.pre.total_buy_volume > 0
    /\ LET n == last.pre.total_buy_volume * last.pre.average_price
                    + last.call.price * last.call.vol
           d == last.pre.total_buy_volume + last.call.vol
       IN  /\ 2 * (n % d) = d
           /\ order_book.average_price = Round(n, d)
           /\ order_book.average_price % 2 = 0
    /\ order_book.total_buy_volume = last.pre.total_buy_volume + last.call.vol

IsSend == last.call.op \in {"send_buy_order", "send_sell_order"}

SentOf(type) == {out.sent[k] : k \in {n \in 1..Len(out.sent) : out.sent[n].type = type}}

Ids(ob) == {o.id : o \in Resting(ob)}

\* the side a ledger side goes by on the wire
WireSide(side) == IF side = BID THEN BUY ELSE SELL

\* C11: in every send_buy_order or send_sell_order call, an insert message
\* for an id is sent iff an order with that id entered the ledger during the
\* call, with the volume, price and side the ledger recorded for it; a
\* cancel message for an id is sent iff the order with that id left the
\* ledger during the call.
C11_MessagesMatchLedger ==
    IsSend =>
        /\ \A m \in SentOf("insert") :
               \E o \in Resting(order_book) :
                   /\ o.id = m.id
                   /\ o.id \notin Ids(last.pre)
                   /\ o.vol = m.vol
                   /\ o.price = m.price
                   /\ WireSide(o.side) = m.side
        /\ {m.id : m \in SentOf("insert")} = Ids(order_book) \ Ids(last.pre)
        /\ {m.id : m \in SentOf("cancel")} = Ids(last.pre) \ Ids(order_book)
        /\ Len(out.sent) = Cardinality(SentOf("insert")) + Cardinality(SentOf("cancel"))

\* An eviction followed by an accepted retry whose volume was clamped.
C11_Witness ==
    /\ IsSend
    /\ out.retried
    /\ out.retry.ok
    /\ out.retry.val < last.call.vol
    /\ SentOf("cancel") = {CancelOrder(out.evict.val)}
    /\ SentOf("insert") =
           {InsertOrder(last.call.id, WireSide(last.call.side), last.call.price, out.retry.val)}
    /\ last.call.id \in Ids(order_book)
    /\ out.evict.val \notin Ids(order_book)

\* the first add of the last handler call was rejected
FirstRejected == IsSend /\ out.limited # 1 /\ ~out.first.ok

\* the handler took the eviction branch: it asked rolling_period_limit a
\* second time and, when granted, called remove_least_useful_order
Attempted == out.evicting \/ out.limited = 2

\* C18: whenever send_buy_order or send_sell_order evicts a resting order
\* after a rejected submission (and sends its cancel), the retried add at the
\* same price and lot is accepted, so no resting order is cancelled without
\* the new order being inserted.
C18_EvictionMakesRoom ==
    (IsSend /\ SentOf("cancel") # {}) =>
        /\ out.retried
        /\ out.retry.ok
        /\ SentOf("insert") # {}
        /\ last.call.id \in Ids(order_book)

\* C19: after a rejected submission send_buy_order and send_sell_order
\* attempt eviction and retry exactly when the code is 0 or 3, and abandon
\* the submission without evicting when the code is 1 or 2.
C19_EvictionCodes ==
    FirstRejected =>
        /\ Attempted <=> out.first.val \in {0, 3}
        /\ out.first.val \in {1, 2} => (order_book = last.pre /\ out.sent = <<>>)

IsProfit == last.call.op = "calc_profit_or_loss"

\* the largest multiple of 100 not exceeding round(0.02 * future_price)
Delta(future_price) ==
    LET r == Round(2 * future_price, 100)
    IN  CHOOSE m \in (r - 99)..r : m % 100 = 0

\* price clamped into [lo, hi]
Clamp(price, lo, hi) == IF price < lo THEN lo ELSE IF price > hi THEN hi ELSE price

\* C21: calc_profit_or_loss(futurePrice, pairedPrice) returns
\* future_position * futurePrice + position * c, where delta is the largest
\* multiple of 100 not exceeding round(0.02 * futurePrice) and c is
\* pairedPrice clamped into [futurePrice - delta, futurePrice + delta]; the
\* call does not modify the ledger.
C21_ProfitOrLoss ==
    IsProfit =>
        LET fp == last.call.price
            c  == Clamp(last.call.market, fp - Delta(fp), fp + Delta(fp))
        IN  /\ last.ret.val = last.pre.future_position * fp + last.pre.position * c
            /\ (last.call.market >= fp - Delta(fp) /\ last.call.market <= fp + Delta(fp))
                   => c = last.call.market
            /\ order_book = last.pre

\* futurePrice 10000, pairedPrice 10500, position 10, future_position -10:
\* the band is [9800, 10200] and the result 2000.
C21_Witness ==
    /\ IsProfit
    /\ last.call.price = 10000
    /\ last.call.market = 10500
    /\ last.pre.position = 10
    /\ last.pre.future_position = -10
    /\ Delta(10000) = 200
    /\ last.ret.val = 2000

\* C25: future_position == -position in every reachable state, so
\* calc_profit_or_loss equals position * (clampedPrice - futurePrice) for
\* every pair of prices and its magnitude is at most |position| * delta.
C25_FutureMirrorsPosition ==
    /\ order_book.future_position = -order_book.position
    /\ \A fp \in FuturePrices, offset \in ProfitOffsets :
           LET pnl == calc_profit_or_loss(order_book, fp, fp + offset)
               c   == Clamp(fp + offset, fp - Delta(fp), fp + Delta(fp))
           IN  /\ pnl = order_book.position * (c - fp)
               /\ Abs(pnl) <= Abs(order_book.position) * Delta(fp)

\* A fill reconciled through the registry has moved the position beyond
\* POSITION_LIMIT, and a profit is at its bound.
C25_Witness ==
    /\ RegistryFill
    /\ order_book.position > POSITION_LIMIT
    /\ order_book.future_position = -order_book.position
    /\ calc_profit_or_loss(order_book, 10000, 10500) = order_book.position * Delta(10000)

\* s is in ascending order of price
Sorted(s) == \A i, j \in 1..Len(s) : i < j => s[i][1] <= s[j][1]

\* where an order at price belongs in s: after every cheaper order and
\* before the first order at price or above
Slot(s, price) ==
    CHOOSE k \in 1..(Len(s) + 1) :
        /\ \A j \in 1..(k - 1) : s[j][1] < price
        /\ k <= Len(s) => s[k][1] >= price

\* the price and id of every order of s, in order
Keys(s) == [i \in 1..Len(s) |-> <<s[i][1], s[i][3]>>]

\* later is earlier with some entries left out and none moved
Thinned(earlier, later) ==
    LET Kept(k) == \E i \in 1..Len(later) : later[i] = k
    IN  later = SelectSeq(earlier, Kept)

\* C23: bids and asks are each sorted ascending by price in every reachable
\* state; an accepted submission inserts the new order immediately before
\* the first existing entry whose price is >= its own, and appends it when
\* there is none; fills, cancellations and evictions never reorder the
\* remaining entries.
C23_SortedSides ==
    /\ Sorted(order_book.bids)
    /\ Sorted(order_book.asks)
    /\ (IsAdd /\ last.ret.ok) =>
           LET new == <<last.call.price, last.ret.val, last.call.id>>
           IN  IF last.call.op = "add_bid"
               THEN /\ order_book.bids =
                           InsertAt(last.pre.bids, Slot(last.pre.bids, last.call.price), new)
                    /\ order_book.asks = last.pre.asks
               ELSE /\ order_book.asks =
                           InsertAt(last.pre.asks, Slot(last.pre.asks, last.call.price), new)
                    /\ order_book.bids = last.pre.bids
    /\ (IsAmend \/ IsRemove \/ IsEvict) =>
           /\ Thinned(Keys(last.pre.bids), Keys(order_book.bids))
           /\ Thinned(Keys(last.pre.asks), Keys(order_book.asks))

\* A new ask goes between the cheaper asks and the older asks at its price.
C23_Witness ==
    /\ last.call.op = "add_ask"
    /\ last.ret.ok
    /\ LET k == Slot(last.pre.asks, last.call.price)
       IN  /\ k > 1
           /\ k <= Len(last.pre.asks)
           /\ last.pre.asks[k][1] = last.call.price
           /\ order_book.asks[k][3] = last.call.id
           /\ order_book.asks[k + 1] = last.pre.asks[k]
    /\ Sorted(order_book.asks)

\* C24: every order held in bids or asks has volume > 0 in every reachable
\* state, also after fills reconciled through the registry have moved the
\* position.
C24_RestingVolumePositive ==
    \A o \in Resting(order_book) : o.vol > 0

\* C26: the cost-basis accumulators track the open position in every
\* reachable state: total_buy_volume == max(position, 0) and
\* total_sell_volume == max(-position, 0), and average_price == 0 whenever
\* position == 0, after any sequence of fills including fills reconciled
\* through the registry.
C26_AccumulatorsTrackPosition ==
    /\ order_book.total_buy_volume = IF order_book.position > 0 THEN order_book.position ELSE 0
    /\ order_book.total_sell_volume = IF order_book.position < 0 THEN -order_book.position ELSE 0
    /\ order_book.position = 0 => order_book.average_price = 0

\* C27: whenever send_buy_order or send_sell_order calls
\* remove_least_useful_order, the ledger holds at least one resting order,
\* so the scan selects an order and the call does not raise on order[0].
C27_EvictionFindsAnOrder ==
    (IsSend /\ out.evicting) =>
        /\ Resting(last.pre) # {}
        /\ Scan(last.pre, last.call.market).order # <<>>
        /\ out.evict.raised = ""
        /\ last.ret.raised = ""

\* The eviction is called with a single order resting, and removes it.
C27_Witness ==
    /\ IsSend
    /\ out.evicting
    /\ Cardinality(Resting(last.pre)) = 1
    /\ out.evict.ok
    /\ out.evict.val \in Ids(last.pre)

\* what the second before t and the second t hold together: the window
\* [t - 1, t]
InWindow(t) ==
    [granted |-> wire[t + 1].granted + (IF t > 0 THEN wire[t].granted ELSE 0),
     sent    |-> wire[t + 1].sent + (IF t > 0 THEN wire[t].sent ELSE 0)]

\* C22: for every instant t at most 50 order messages (inserts plus
\* cancels) of send_buy_order and send_sell_order carry a time in
\* [t - 1, t]; rolling_period_limit returns False without recording
\* anything once 50 grants lie inside the window, and every insert or cancel
\* sent follows a grant of its own.
C22_RollingLimit ==
    /\ \A t \in 0..clock :
           /\ InWindow(t).sent <= 50
           /\ InWindow(t).granted <= 50
           /\ wire[t + 1].sent <= wire[t + 1].granted
    /\ Len(last_time_called) <= 50
    /\ IsSend =>
           /\ \A k \in 1..Len(last_time_called) : last_time_called[k] >= clock - 1
           /\ Len(last_time_called) = InWindow(clock).granted
           /\ Len(out.sent) <= Grants(out)
           /\ SentOf("insert") # {} => out.limited # 1
           /\ SentOf("cancel") # {} => out.evicting
           /\ out.limited # 0 =>
                  /\ Len(last_time_called) = 50
                  /\ InWindow(clock).granted = 50
                  /\ out.sent = <<>>
                  /\ order_book = last.pre

\* A second after fifty orders were sent the window is still full and the
\* submission is declined.
C22_Witness ==
    /\ IsSend
    /\ out.limited = 1
    /\ clock = 1
    /\ InWindow(1).sent = 50
    /\ InWindow(1).granted = 50
    /\ Len(last_time_called) = 50

====
